---- MODULE Spec2Model ----
(***************************************************************************)
(* Model of the synchronized LoRa measurement protocol of                  *)
(* heltec-lora-test: the handshake (syncLoop), the periodic scheduler      *)
(* (hal/timer.hh, second revision: lines 104-219) and the measurement      *)
(* state machine (timedLoop / sdLoop / loop of src/unnamed/part_001).      *)
(*                                                                         *)
(* Two devices exist, one meant to become the transmitter and one the      *)
(* receiver; a device is identified by the role its user selects.  Each    *)
(* device runs three execution contexts:                                   *)
(*   - the polling loop (Arduino loop task): menu, syncLoop, abort, redraw *)
(*   - the esp_timer callback _timerCallback                               *)
(*   - the handler task _timerHandlerTask, which runs timedLoop / sdLoop   *)
(* Time is a global microsecond clock `now`.  It advances either to the    *)
(* next pending event (a timer alarm, the end of a delay) or by a single   *)
(* microsecond, so that a handler can end just after a tick.  The handler  *)
(* task has the highest priority on the polling loop's core: a notified    *)
(* handler starts before time passes, and the polling loop runs only       *)
(* while the handler task is blocked.  _timerCallback runs in the          *)
(* esp_timer task and interleaves freely with both.                        *)
(***************************************************************************)
EXTENDS Integers, Sequences, FiniteSets, TLC

\* ------------------------------------------------------------------ bounds
\* Messages per parameter combination.  The source value is 50
\* (part_001:27); the model is checked with a scaled-down buffer.
MESSAGES_PER_TEST == 2
\* The receiver may adopt any of the last MaxCombos indices of the sweep.
MaxCombos == 2
\* The largest index the handshake is called with on its own: indices past
\* one byte are included.
MaxTestIndex == 511
\* Handshake attempts a device makes.
MaxAttempts == 2
\* Ticks a timer may produce beyond those of a clean sweep.
ExtraTicks == 2
\* Irregularities of a run: a radio operation of the sweep that ends with an
\* error, a microsecond that passes while a handler executes, a handler
\* that is still behind when the next alarm is due, an alarm that falls
\* between the two calls of the abort path.
MaxIrregular == 2
\* The longest payload radioTransmitTime is called with (the longest LoRa
\* payload).
MaxPacketLength == 255

\* --------------------------------------------------------------- constants
RX_TIMING_ERROR == 55000
TX_DELAY == RX_TIMING_ERROR + 8000
BUDGET == TX_DELAY + 80000
SD_BUDGET == 2000000
\* sizeof("XMensagem"): nine characters and the terminating NUL.
MessageLength == 10
\* The largest value of the uint8_t that carries the index in syncLoop.
ByteMax == 255
\* delay(1000) in syncLoop, in microseconds.
SyncBackoff == 1000000

kUnspecified == "kUnspecified"
kTx == "kTx"
kRx == "kRx"
Nodes == {kTx, kRx}

kUninitialized == "kUninitialized"
kRunning == "kRunning"
kFinished == "kFinished"

kNone == "kNone"
kCrc == "kCrc"
kHeader == "kHeader"
kTimeout == "kTimeout"
kUnknown == "kUnknown"
\* The values _radioConvertError can return (kHeader is never produced).
RadioErrors == {kNone, kCrc, kTimeout, kUnknown}

NULL == "NULL"
timedLoopFn == "timedLoop"
sdLoopFn == "sdLoop"

\* ----------------------------------------------------------- ParameterSpace
\* The tables of updateTestParameters; bandwidth is kept in units of 0.1 kHz.
PowerTable == <<5, 10, 17, 22>>
SfTable == <<7, 8, 9, 10, 11, 12>>
CrTable == <<5, 8>>
BwTable == <<625, 1250, 2500>>

\* The entries of a table.
Entries(table) == {table[k] : k \in 1..Len(table)}

TotalCombinations == Len(BwTable) * Len(CrTable) * Len(SfTable) * Len(PowerTable)

\* A decoding that would consume the coding rate before the bandwidth.
DecodeCodingRateFirst(index) ==
    LET bwSize == Len(BwTable)
        crSize == Len(CrTable)
        sfSize == Len(SfTable)
        powerSize == Len(PowerTable)
        index1 == index \div crSize
        index2 == index1 \div bwSize
        index3 == index2 \div sfSize
    IN  [bandwidth |-> BwTable[(index1 % bwSize) + 1],
         cr |-> CrTable[(index % crSize) + 1],
         sf |-> SfTable[(index2 % sfSize) + 1],
         power |-> PowerTable[(index3 % powerSize) + 1]]

\* A decoding that would forget to divide the index after the bandwidth.
DecodeWithoutDivision(index) ==
    LET bwSize == Len(BwTable)
        crSize == Len(CrTable)
        sfSize == Len(SfTable)
        powerSize == Len(PowerTable)
        index1 == index
        index2 == index1 \div crSize
        index3 == index2 \div sfSize
    IN  [bandwidth |-> BwTable[(index % bwSize) + 1],
         cr |-> CrTable[(index1 % crSize) + 1],
         sf |-> SfTable[(index2 % sfSize) + 1],
         power |-> PowerTable[(index3 % powerSize) + 1]]

\* The parameters updateTestParameters derives from a (valid) index: each
\* table is indexed by the remainder and the index is divided by the
\* table's size, bandwidth first.
Decode(index) ==
    LET bwSize == Len(BwTable)
        crSize == Len(CrTable)
        sfSize == Len(SfTable)
        powerSize == Len(PowerTable)
        index1 == index \div bwSize
        index2 == index1 \div crSize
        index3 == index2 \div sfSize
    IN  [bandwidth |-> BwTable[(index % bwSize) + 1],
         cr |-> CrTable[(index1 % crSize) + 1],
         sf |-> SfTable[(index2 % sfSize) + 1],
         power |-> PowerTable[(index3 % powerSize) + 1]]

\* An updateTestParameters that would not reduce the index.
UpdateTestParametersUnreduced(test) ==
    [test |-> test,
     params |-> Decode(test),
     wasInvalidTest |-> FALSE]

\* updateTestParameters(): the index is reduced modulo the table sizes, the
\* parameters are decoded, and the result says whether the index wrapped.
UpdateTestParameters(test) ==
    LET wasZero == test = 0
        idx == test % TotalCombinations
    IN  [test |-> idx,
         params |-> Decode(idx),
         wasInvalidTest |-> (~wasZero) /\ idx = 0]

\* An advance that would leave the radio with the parameters of the
\* combination before.
AdvanceKeepsParameters(test) ==
    [UpdateTestParameters(test + 1) EXCEPT !.params = Decode(test)]

\* An advance that would skip an index.
AdvanceByTwo(test) == UpdateTestParameters(test + 2)

\* sdLoop's advance to the next combination: _currentTest++, then
\* updateTestParameters().
Advance(test) == UpdateTestParameters(test + 1)

\* The initial _parameters, used for the handshake.
InitialParameters == [bandwidth |-> 625, cr |-> 8, sf |-> 12, power |-> 22]

\* ----------------------------------------------------------- TimeOnAirModel
\* A low data rate optimisation that would be switched on by the spreading
\* factor alone.
RadioHasLDROFromSf(param) == param.sf >= 11

\* radioHasLDRO: the symbol time 2^sf / bandwidth, in milliseconds, exceeds
\* 16.0 (bandwidth is held in tenths of a kHz).
RadioHasLDRO(param) == (2 ^ param.sf) * 10 > 16 * param.bandwidth

CeilDiv(a, b) == (a + b - 1) \div b

Max(a, b) == IF a >= b THEN a ELSE b

\* The whole part of a * b / c, as the conversion (uint64_t)toa leaves it.
MulDiv(a, b, c) == (a \div c) * b + ((a % c) * b) \div c

\* The denominator of the fraction inside N_symbol.
Denominator(param) == 4 * (param.sf - (IF RadioHasLDRO(param) THEN 2 ELSE 0))

\* A time on air that would count symbols and leave out their duration.
RadioTransmitTimeInSymbols(param, packetLength) ==
    LET numerator == 8 * packetLength + 16 - 4 * param.sf + 8 + 20
        nSymbol4 == 81 + 4 * CeilDiv(Max(numerator, 0), Denominator(param)) * param.cr
    IN  MulDiv(2500, nSymbol4, param.bandwidth)

\* radioTransmitTime in microseconds, for sf >= 7, explicit header, CRC on and
\* a preamble of 8 symbols.  N_symbol = 8 + 4.25 + 8 + ceil(num/den) * cr;
\* four times N_symbol is an integer, and 1000 * N_symbol * 2^sf / bandwidth
\* is 2500 * (4 N_symbol) * 2^sf over the bandwidth in tenths of a kHz.
RadioTransmitTime(param, packetLength) ==
    LET numerator == 8 * packetLength + 16 - 4 * param.sf + 8 + 20
        nSymbol4 == 81 + 4 * CeilDiv(Max(numerator, 0), Denominator(param)) * param.cr
    IN  MulDiv(2500, nSymbol4 * (2 ^ param.sf), param.bandwidth)

\* radioSetParameters: the modulation handed to the radio by
\* setLoRaModulation(sf, bandwidth * 1000, cr, radioHasLDRO(param)), the
\* bandwidth in Hz.
RadioSetParameters(param) ==
    [sf |-> param.sf, bandwidth |-> param.bandwidth * 100, cr |-> param.cr,
     ldro |-> RadioHasLDRO(param)]

\* radioRecv after the packet has arrived, called with *length = capacity for
\* a packet of msgLength bytes: *length is raised to msgLength when it is
\* smaller, and readData(dest, *length) is asked for that many bytes, of
\* which the radio has msgLength to give.
RadioRecv(capacity, msgLength) ==
    LET length == IF capacity < msgLength THEN msgLength ELSE capacity
    IN  [length |-> length,
         stored |-> IF length < msgLength THEN length ELSE msgLength]

TotalBudget(param) == RadioTransmitTime(param, MessageLength) + BUDGET

\* -------------------------------------------------------------------- state
VARIABLES
    now,                \* timerTime(): the global clock, in microseconds
    irregular,          \* irregularities so far (history)
    powered,            \* the devices that are switched on
    probe,              \* a function of the program called on its own (history)
    air,                \* the sync packet being transmitted, or NULL
    rxBuf,              \* what a device's radio holds while it receives
    _role, _protoState, _currentTest, _parameters, _messageIndex,
    _testsOk, _testsCorrupt, _testsLost, _timerLatch, _resultMessage,
    _nextAlarm, _currentPeriod, _operationBegin, _operationEnd, _timedEnd,
    _begin, _results, _hasSD,
    _file,              \* hal/log.hh: whether the log file is open
    lastPass,           \* the records of the latest persistence pass
    _timerTask,         \* NULL, "alive", or "deleted" (a dangling handle)
    notify,             \* the handler task's notification count
    _timerUserFn, _timerNextPeriod, _timerNextUserFn,
    timerArmed, timerPeriod, timerAlarm,   \* the esp_timer behind _timerHandle
    hpc,                \* position of the handler task
    lpc,                \* position of the polling loop
    wakeAt,             \* end of the polling loop's delay()
    syncMessage,        \* syncLoop's local message[0]
    fault,              \* an undefined operation has corrupted the device
    \* history variables, written by no code
    ticks,              \* timer callbacks run
    invocations,        \* user handler invocations
    radioOps,           \* radio operations of the measurement handler
    comboSlots,         \* timedLoop invocations since the index last changed
    passes,             \* persistence passes run
    stagedCall,         \* arguments of the latest two-argument timerResync
    slotStart,          \* time of the latest tick (or of timerStart)
    attempts,           \* handshake attempts made
    due,                \* the oldest tick not yet taken by the handler task
    served,             \* the tick the latest handler invocation took
    aborted             \* the abort path has run to its end

clockVars == <<now, irregular>>
radioVars == <<air, rxBuf>>
sweepVars == <<_currentTest, _parameters, _messageIndex, _results>>
counterVars == <<_testsOk, _testsCorrupt, _testsLost>>
snapshotVars == <<_nextAlarm, _currentPeriod, _operationBegin, _operationEnd, _timedEnd>>
logVars == <<_hasSD, _file, lastPass>>
stagedVars == <<_timerNextPeriod, _timerNextUserFn>>
timerVars == <<timerArmed, timerPeriod, timerAlarm>>
taskVars == <<_timerTask, notify, _timerUserFn, hpc>>
loopVars == <<lpc, wakeAt, syncMessage, attempts, aborted>>
histVars == <<ticks, invocations, radioOps, comboSlots, passes, stagedCall, slotStart,
             due, served>>

vars == <<clockVars, powered, probe, radioVars, _role, _protoState, sweepVars, counterVars,
          _timerLatch, _resultMessage, snapshotVars, _begin, logVars, stagedVars,
          timerVars, taskVars, loopVars, fault, histVars>>

ZeroResult == [used |-> FALSE, test |-> 0, msg |-> 0, error |-> kNone, period |-> 0]

NoCall == [micro |-> 0, fn |-> NULL]

\* A slot: the time of its tick and the period the tick left in effect.
NoSlot == [tick |-> 0, period |-> 0]

\* No function has been called on its own.
NoProbe == [fn |-> NULL]

\* Nothing on the air; a radio that is not receiving.
NoPacket == [from |-> NULL, byte |-> 0]
RadioIdle == [st |-> "idle", byte |-> 0]
Listening == [st |-> "listening", byte |-> 0]

\* The state after setup(): the globals as initialised in part_001 and
\* hal/timer.hh, with the devices in P switched on.
InitWith(P) ==
    /\ now = 0 /\ irregular = 0
    /\ powered = P
    /\ probe = NoProbe
    /\ air = NoPacket
    /\ rxBuf = [n \in Nodes |-> RadioIdle]
    /\ _role = [n \in Nodes |-> kUnspecified]
    /\ _protoState = [n \in Nodes |-> kUninitialized]
    /\ _currentTest = [n \in Nodes |-> 0]
    /\ _parameters = [n \in Nodes |-> InitialParameters]
    /\ _messageIndex = [n \in Nodes |-> 0]
    /\ _testsOk = [n \in Nodes |-> 0]
    /\ _testsCorrupt = [n \in Nodes |-> 0]
    /\ _testsLost = [n \in Nodes |-> 0]
    /\ _timerLatch = [n \in Nodes |-> FALSE]
    /\ _resultMessage = [n \in Nodes |-> "(...)"]
    /\ _nextAlarm = [n \in Nodes |-> 0]
    /\ _currentPeriod = [n \in Nodes |-> 1]
    /\ _operationBegin = [n \in Nodes |-> 0]
    /\ _operationEnd = [n \in Nodes |-> 0]
    /\ _timedEnd = [n \in Nodes |-> 0]
    /\ _begin = [n \in Nodes |-> 0]
    /\ _results = [n \in Nodes |-> [i \in 0..(MESSAGES_PER_TEST - 1) |-> ZeroResult]]
    /\ _hasSD = [n \in Nodes |-> FALSE]
    /\ _file = [n \in Nodes |-> FALSE]
    /\ lastPass = [n \in Nodes |-> <<>>]
    /\ _timerTask = [n \in Nodes |-> NULL]
    /\ notify = [n \in Nodes |-> 0]
    /\ _timerUserFn = [n \in Nodes |-> NULL]
    /\ _timerNextPeriod = [n \in Nodes |-> 0]
    /\ _timerNextUserFn = [n \in Nodes |-> NULL]
    /\ timerArmed = [n \in Nodes |-> FALSE]
    /\ timerPeriod = [n \in Nodes |-> 0]
    /\ timerAlarm = [n \in Nodes |-> 0]
    /\ hpc = [n \in Nodes |-> "none"]
    /\ lpc = [n \in Nodes |-> "idle"]
    /\ wakeAt = [n \in Nodes |-> 0]
    /\ syncMessage = [n \in Nodes |-> 0]
    /\ fault = [n \in Nodes |-> FALSE]
    /\ ticks = [n \in Nodes |-> 0]
    /\ invocations = [n \in Nodes |-> 0]
    /\ radioOps = [n \in Nodes |-> 0]
    /\ comboSlots = [n \in Nodes |-> 0]
    /\ passes = [n \in Nodes |-> 0]
    /\ stagedCall = [n \in Nodes |-> NoCall]
    /\ slotStart = [n \in Nodes |-> 0]
    /\ attempts = [n \in Nodes |-> 0]
    /\ due = [n \in Nodes |-> NoSlot]
    /\ served = [n \in Nodes |-> NoSlot]
    /\ aborted = [n \in Nodes |-> FALSE]

\* A single device is observed; its peer is an unmodelled transmitter.
Init == \E n \in Nodes : InitWith({n})

\* Both devices are switched on.
InitPair == InitWith(Nodes)

\* ------------------------------------------------------------------- clock
Set(f, n, v) == [f EXCEPT ![n] = v]

MinOf(S) == CHOOSE x \in S : \A y \in S : x <= y

\* Ticks a timer is followed for: a clean sweep of MaxCombos combinations
\* and a few more.
MaxTicks == (MESSAGES_PER_TEST + 1) * MaxCombos + ExtraTicks

\* The instants at which something is due: the alarms of the armed timers
\* and the ends of the delays in progress.
EventTimes ==
    {timerAlarm[n] : n \in {m \in powered : timerArmed[m]}}
        \cup {wakeAt[n] : n \in {m \in powered : lpc[m] = "backoff"}}

\* The handler task exists and is not blocked in ulTaskNotifyTake with
\* nothing to take: it is running a handler or about to.
HandlerBehind(n) ==
    /\ _timerTask[n] = "alive"
    /\ hpc[n] # "wait" \/ notify[n] > 0

\* The handler task has been notified and not yet taken the notification.
\* It has the highest priority on its core, so it runs before time passes.
HandlerReady(n) ==
    /\ _timerTask[n] = "alive"
    /\ hpc[n] = "wait" /\ notify[n] > 0

\* radioRecv in syncLoop spins on the interrupt flag and returns as soon as
\* the radio has raised it.
RecvReady(n) == lpc[n] = "sync_radio" /\ rxBuf[n].st \in {"packet", "corrupt"}

\* Time passes up to the next event.
AdvanceToEvent ==
    /\ EventTimes # {}
    /\ ~\E n \in powered : HandlerReady(n) \/ RecvReady(n)
    /\ now < MinOf(EventTimes)
    /\ now' = MinOf(EventTimes)
    /\ IF \E n \in powered : HandlerBehind(n) \/ lpc[n] = "abort_stop"
       THEN irregular < MaxIrregular /\ irregular' = irregular + 1
       ELSE irregular' = irregular
    /\ UNCHANGED <<powered, probe, radioVars, _role, _protoState, sweepVars, counterVars,
                   _timerLatch, _resultMessage, snapshotVars, _begin, logVars,
                   stagedVars, timerVars, taskVars, loopVars, fault, histVars>>

\* One microsecond passes, short of the next event.
AdvanceEps ==
    /\ irregular < MaxIrregular
    /\ ~\E n \in powered : HandlerReady(n)
    /\ \E n \in powered : hpc[n] \notin {"none", "wait", "dead"}
    /\ IF EventTimes = {} THEN TRUE ELSE now + 1 < MinOf(EventTimes)
    /\ now' = now + 1
    /\ irregular' = irregular + 1
    /\ UNCHANGED <<powered, probe, radioVars, _role, _protoState, sweepVars, counterVars,
                   _timerLatch, _resultMessage, snapshotVars, _begin, logVars,
                   stagedVars, timerVars, taskVars, loopVars, fault, histVars>>

\* ------------------------------------------------------- PeriodicScheduler
\* A callback that would let the periodic timer re-arm itself and never call
\* esp_timer_restart.
CallbackAlarmPeriodic(n) == timerAlarm[n] + timerPeriod[n]

\* The alarm the esp_timer holds after _timerCallback: esp_timer_restart arms
\* it one staged period from now; otherwise the periodic timer re-arms itself
\* one period after the alarm that fired.
CallbackAlarm(n) ==
    IF _timerNextPeriod[n] > 0
    THEN now + _timerNextPeriod[n]
    ELSE timerAlarm[n] + timerPeriod[n]

\* The handler _timerCallback leaves in _timerUserFn.
CallbackUserFn(n) ==
    IF _timerNextPeriod[n] > 0 /\ _timerNextUserFn[n] # NULL
    THEN _timerNextUserFn[n]
    ELSE _timerUserFn[n]

\* _timerCallback: the timer's alarm fires.  vTaskNotifyGiveFromISR on the
\* handle of a deleted task is undefined: it may go unnoticed or corrupt the
\* device.
TimerCallback(n) ==
    /\ n \in powered
    /\ timerArmed[n]
    /\ now = timerAlarm[n]
    /\ ticks[n] < MaxTicks
    /\ timerPeriod' = Set(timerPeriod, n,
            IF _timerNextPeriod[n] > 0 THEN _timerNextPeriod[n] ELSE timerPeriod[n])
    /\ timerAlarm' = Set(timerAlarm, n, CallbackAlarm(n))
    /\ _timerUserFn' = Set(_timerUserFn, n, CallbackUserFn(n))
    /\ _timerNextUserFn' = Set(_timerNextUserFn, n,
            IF _timerNextPeriod[n] > 0 THEN NULL ELSE _timerNextUserFn[n])
    /\ _timerNextPeriod' = Set(_timerNextPeriod, n, 0)
    /\ IF _timerTask[n] = "alive"
       THEN /\ notify' = Set(notify, n, notify[n] + 1)
            /\ fault' = fault
       ELSE /\ notify' = notify
            /\ \E f \in {fault[n], TRUE} : fault' = Set(fault, n, f)
    /\ ticks' = Set(ticks, n, ticks[n] + 1)
    /\ slotStart' = Set(slotStart, n, now)
    /\ stagedCall' = Set(stagedCall, n,
            IF _timerNextPeriod[n] > 0 THEN NoCall ELSE stagedCall[n])
    /\ due' = IF _timerTask[n] = "alive" /\ notify[n] = 0
              THEN Set(due, n, [tick |-> now, period |-> timerPeriod'[n]])
              ELSE due
    /\ UNCHANGED <<clockVars, powered, probe, radioVars, _role, _protoState, sweepVars,
                   counterVars, _timerLatch, _resultMessage, snapshotVars, _begin,
                   logVars, timerArmed, _timerTask, hpc, loopVars,
                   invocations, radioOps, comboSlots, passes, served>>

\* ulTaskNotifyTake(pdTRUE, ...): the notification count is cleared.
NotifyTake(count) == 0

\* _timerHandlerTask is woken and calls the current _timerUserFn.
HandlerWoken(n, fn) ==
    /\ n \in powered
    /\ _timerTask[n] = "alive"
    /\ hpc[n] = "wait"
    /\ notify[n] > 0
    /\ _timerUserFn[n] = fn
    /\ notify' = Set(notify, n, NotifyTake(notify[n]))
    /\ invocations' = Set(invocations, n, invocations[n] + 1)
    /\ served' = Set(served, n, due[n])

\* The handler task is executing at position pos.
HandlerAt(n, pos) ==
    /\ n \in powered
    /\ _timerTask[n] = "alive"
    /\ hpc[n] = pos

\* ------------------------------------------------- MeasurementStateMachine
\* The status text for an outcome (the switch of timedLoop).
ResultMessage(error) ==
    CASE error = kNone -> "(ok)"
      [] error = kTimeout -> "(t.out)"
      [] error \in {kHeader, kCrc} -> "(crc/h)"
      [] OTHER -> "(err)"

\* A classification that would leave an unknown error uncounted.
ClassifyUnknownUncounted(error) ==
    CASE error = kNone -> "ok"
      [] error = kTimeout -> "lost"
      [] error \in {kHeader, kCrc} -> "corrupt"
      [] OTHER -> "none"

\* The counter an outcome is counted in (the switch of timedLoop).
Classify(error) ==
    CASE error = kNone -> "ok"
      [] error = kTimeout -> "lost"
      [] error \in {kHeader, kCrc} -> "corrupt"
      [] error = kUnknown -> "lost"

\* A latch update that would assign the comparison instead of or-ing it in.
LatchAfterAssigned(n, begin) == (now - begin) > _currentPeriod[n]

\* The latch after a handler that began at `begin` ends now.
LatchAfter(n, begin) == _timerLatch[n] \/ (now - begin) > _currentPeriod[n]

\* The radio calls timedLoop makes in one invocation: radioRecv for the
\* receiver, radioSend for the sender, none for any other role.
RadioOperations(role) == IF role \in {kRx, kTx} THEN 1 ELSE 0

\* timedLoop, up to the start of its radio operation: the scheduler snapshot
\* is taken and the result slot _results[_messageIndex] is initialised.  A
\* write past the end of _results is undefined.
TimedBegin(n) ==
    /\ HandlerWoken(n, timedLoopFn)
    /\ _nextAlarm' = Set(_nextAlarm, n, timerAlarm[n])
    /\ _currentPeriod' = Set(_currentPeriod, n, timerPeriod[n])
    /\ _operationBegin' = Set(_operationBegin, n, now)
    /\ IF _messageIndex[n] < MESSAGES_PER_TEST
       THEN /\ _results' = [_results EXCEPT ![n][_messageIndex[n]] =
                    [used |-> TRUE, test |-> _currentTest[n], msg |-> _messageIndex[n],
                     error |-> @.error, period |-> timerPeriod[n]]]
            /\ fault' = fault
       ELSE /\ _results' = _results
            /\ \E f \in {fault[n], TRUE} : fault' = Set(fault, n, f)
    /\ comboSlots' = Set(comboSlots, n, comboSlots[n] + 1)
    /\ hpc' = Set(hpc, n, "T_radio")
    /\ UNCHANGED <<clockVars, powered, probe, radioVars, _role, _protoState, _currentTest,
                   _parameters, _messageIndex, counterVars, _timerLatch,
                   _resultMessage, _operationEnd, _timedEnd, _begin, logVars,
                   stagedVars, timerVars, _timerTask, _timerUserFn, loopVars,
                   ticks, radioOps, passes, stagedCall, slotStart, due>>

\* The timeout timedLoop gives the receiver's radioRecv: the time on air of
\* a whole message plus TX_DELAY.
RecvTimeout(param) == RadioTransmitTime(param, MessageLength) + TX_DELAY

\* A timedLoop that would end the sweep at a lost message.
TimedRadioFatal(n) ==
    /\ HandlerAt(n, "T_radio")
    /\ \E error \in RadioErrors :
        /\ IF error = kNone THEN irregular' = irregular
           ELSE irregular < MaxIrregular /\ irregular' = irregular + 1
        /\ _results' = IF _messageIndex[n] < MESSAGES_PER_TEST
                       THEN [_results EXCEPT ![n][_messageIndex[n]].error = error]
                       ELSE _results
        /\ _resultMessage' = Set(_resultMessage, n, ResultMessage(error))
        /\ _testsOk' = Set(_testsOk, n, _testsOk[n] + (IF Classify(error) = "ok" THEN 1 ELSE 0))
        /\ _testsCorrupt' = Set(_testsCorrupt, n,
                _testsCorrupt[n] + (IF Classify(error) = "corrupt" THEN 1 ELSE 0))
        /\ _testsLost' = Set(_testsLost, n,
                _testsLost[n] + (IF Classify(error) = "lost" THEN 1 ELSE 0))
        /\ _protoState' = Set(_protoState, n,
                IF error \in {kTimeout, kUnknown} THEN kFinished ELSE _protoState[n])
    /\ radioOps' = Set(radioOps, n, radioOps[n] + RadioOperations(_role[n]))
    /\ _operationEnd' = Set(_operationEnd, n, now)
    /\ _messageIndex' = Set(_messageIndex, n, _messageIndex[n] + 1)
    /\ hpc' = Set(hpc, n, IF _messageIndex[n] + 1 = MESSAGES_PER_TEST
                          THEN "T_resync1" ELSE "T_end")
    /\ UNCHANGED <<now, powered, probe, radioVars, _role, _currentTest,
                   _parameters, _timerLatch, _nextAlarm, _currentPeriod,
                   _operationBegin, _timedEnd, _begin, logVars, stagedVars, timerVars,
                   _timerTask, notify, _timerUserFn, loopVars, fault,
                   ticks, invocations, comboSlots, passes, stagedCall, slotStart, due, served>>

\* timedLoop: the radio operation of the slot ends with some outcome, which is
\* stored and counted, and the message index advances.
TimedRadio(n) ==
    /\ HandlerAt(n, "T_radio")
    /\ \E error \in RadioErrors :
        /\ IF error = kNone THEN irregular' = irregular
           ELSE irregular < MaxIrregular /\ irregular' = irregular + 1
        /\ _results' = IF _messageIndex[n] < MESSAGES_PER_TEST
                       THEN [_results EXCEPT ![n][_messageIndex[n]].error = error]
                       ELSE _results
        /\ _resultMessage' = Set(_resultMessage, n, ResultMessage(error))
        /\ _testsOk' = Set(_testsOk, n, _testsOk[n] + (IF Classify(error) = "ok" THEN 1 ELSE 0))
        /\ _testsCorrupt' = Set(_testsCorrupt, n,
                _testsCorrupt[n] + (IF Classify(error) = "corrupt" THEN 1 ELSE 0))
        /\ _testsLost' = Set(_testsLost, n,
                _testsLost[n] + (IF Classify(error) = "lost" THEN 1 ELSE 0))
    /\ radioOps' = Set(radioOps, n, radioOps[n] + RadioOperations(_role[n]))
    /\ _operationEnd' = Set(_operationEnd, n, now)
    /\ _messageIndex' = Set(_messageIndex, n, _messageIndex[n] + 1)
    /\ hpc' = Set(hpc, n, IF _messageIndex[n] + 1 = MESSAGES_PER_TEST
                          THEN "T_resync1" ELSE "T_end")
    /\ UNCHANGED <<now, powered, probe, radioVars, _role, _protoState, _currentTest,
                   _parameters, _timerLatch, _nextAlarm, _currentPeriod,
                   _operationBegin, _timedEnd, _begin, logVars, stagedVars, timerVars,
                   _timerTask, notify, _timerUserFn, loopVars, fault,
                   ticks, invocations, comboSlots, passes, stagedCall, slotStart, due, served>>

\* timerResync, first write: _timerNextPeriod = micro.
ResyncPeriod(n, micro, fn, next) ==
    /\ _timerNextPeriod' = Set(_timerNextPeriod, n, micro)
    /\ stagedCall' = Set(stagedCall, n, [micro |-> micro, fn |-> fn])
    /\ hpc' = Set(hpc, n, next)
    /\ UNCHANGED <<clockVars, powered, probe, radioVars, _role, _protoState, sweepVars,
                   counterVars, _timerLatch, _resultMessage, snapshotVars, _begin,
                   logVars, _timerNextUserFn, timerVars, _timerTask, notify,
                   _timerUserFn, loopVars, fault,
                   ticks, invocations, radioOps, comboSlots, passes, slotStart, due, served>>

\* timerResync, second write: _timerNextUserFn = fn.
ResyncUserFn(n, fn, next) ==
    /\ _timerNextUserFn' = Set(_timerNextUserFn, n, fn)
    /\ hpc' = Set(hpc, n, next)
    /\ UNCHANGED <<clockVars, powered, probe, radioVars, _role, _protoState, sweepVars,
                   counterVars, _timerLatch, _resultMessage, snapshotVars, _begin,
                   logVars, _timerNextPeriod, timerVars, _timerTask, notify,
                   _timerUserFn, loopVars, fault, histVars>>

\* timedLoop after the last message of a combination: timerResync(SD_BUDGET,
\* sdLoop), one write at a time.
TimedResync1(n) ==
    /\ HandlerAt(n, "T_resync1")
    /\ ResyncPeriod(n, SD_BUDGET, sdLoopFn, "T_resync2")

TimedResync2(n) ==
    /\ HandlerAt(n, "T_resync2")
    /\ ResyncUserFn(n, sdLoopFn, "T_end")

\* timedLoop: the end time is taken and the overrun latch updated.
TimedEnd(n) ==
    /\ HandlerAt(n, "T_end")
    /\ _timedEnd' = Set(_timedEnd, n, now)
    /\ _timerLatch' = Set(_timerLatch, n, LatchAfter(n, _operationBegin[n]))
    /\ hpc' = Set(hpc, n, "wait")
    /\ UNCHANGED <<clockVars, powered, probe, radioVars, _role, _protoState, sweepVars,
                   counterVars, _resultMessage, _nextAlarm, _currentPeriod,
                   _operationBegin, _operationEnd, _begin, logVars, stagedVars,
                   timerVars, _timerTask, notify, _timerUserFn, loopVars, fault,
                   histVars>>

\* sdLoop, its first lines: the scheduler snapshot.
SdBegin(n) ==
    /\ HandlerWoken(n, sdLoopFn)
    /\ _nextAlarm' = Set(_nextAlarm, n, timerAlarm[n])
    /\ _currentPeriod' = Set(_currentPeriod, n, timerPeriod[n])
    /\ _operationBegin' = Set(_operationBegin, n, now)
    /\ _resultMessage' = Set(_resultMessage, n, "(escrevendo...)")
    /\ hpc' = Set(hpc, n, "S_write")
    /\ UNCHANGED <<clockVars, powered, probe, radioVars, _role, _protoState, sweepVars,
                   counterVars, _timerLatch, _operationEnd, _timedEnd, _begin,
                   logVars, stagedVars, timerVars, _timerTask, _timerUserFn,
                   loopVars, fault,
                   ticks, radioOps, comboSlots, passes, stagedCall, slotStart, due>>

\* A logPrintf that would print to the file only.
PassRecordsFileOnly(n) ==
    [k \in 1..MESSAGES_PER_TEST |->
        [test |-> _currentTest[n], msg |-> k - 1, params |-> _parameters[n],
         error |-> _results[n][k - 1].error,
         sink |-> IF _file[n] THEN "file" ELSE "none"]]

\* The records sdLoop prints: one per slot of _results, labelled with the
\* current index and parameters and the loop counter i.
PassRecords(n) ==
    [k \in 1..MESSAGES_PER_TEST |->
        [test |-> _currentTest[n], msg |-> k - 1, params |-> _parameters[n],
         error |-> _results[n][k - 1].error,
         sink |-> IF _file[n] THEN "file" ELSE "serial"]]

\* sdLoop: the records are printed, _results is cleared, the log is flushed,
\* the index advances and the protocol state is set from the wrap.
SdWrite(n) ==
    /\ HandlerAt(n, "S_write")
    /\ lastPass' = Set(lastPass, n, PassRecords(n))
    /\ passes' = Set(passes, n, passes[n] + 1)
    /\ _results' = Set(_results, n, [i \in 0..(MESSAGES_PER_TEST - 1) |-> ZeroResult])
    /\ _messageIndex' = Set(_messageIndex, n, 0)
    /\ LET upd == Advance(_currentTest[n])
       IN  /\ _currentTest' = Set(_currentTest, n, upd.test)
           /\ _parameters' = Set(_parameters, n, upd.params)
           /\ _protoState' = Set(_protoState, n,
                    IF upd.wasInvalidTest THEN kFinished ELSE kRunning)
    /\ comboSlots' = Set(comboSlots, n, 0)
    /\ hpc' = Set(hpc, n, "S_resync1")
    /\ UNCHANGED <<clockVars, powered, probe, radioVars, _role, counterVars, _timerLatch,
                   _resultMessage, snapshotVars, _begin, _hasSD, _file, stagedVars,
                   timerVars, _timerTask, notify, _timerUserFn, loopVars, fault,
                   ticks, invocations, radioOps, stagedCall, slotStart, due, served>>

\* An sdLoop that would add the origin offset to every combination's
\* period.
SdResync1WithOffset(n) ==
    /\ HandlerAt(n, "S_resync1")
    /\ ResyncPeriod(n, TotalBudget(_parameters[n])
                        + (IF _role[n] = kTx THEN TX_DELAY ELSE 0),
                    timedLoopFn, "S_resync2")

\* sdLoop: timerResync(radioTransmitTime(...) + BUDGET, timedLoop).
SdResync1(n) ==
    /\ HandlerAt(n, "S_resync1")
    /\ ResyncPeriod(n, TotalBudget(_parameters[n]), timedLoopFn, "S_resync2")

SdResync2(n) ==
    /\ HandlerAt(n, "S_resync2")
    /\ ResyncUserFn(n, timedLoopFn,
                    IF _protoState[n] = kFinished THEN "S_stop" ELSE "S_end")

\* sdLoop after the last combination: logClose(), then timerStop().  The
\* caller is the handler task itself, so vTaskDelete(_timerTask) ends it on
\* the spot: esp_timer_stop and the rest of sdLoop are never reached, and
\* _timerTask keeps the handle of the deleted task.
SdStop(n) ==
    /\ HandlerAt(n, "S_stop")
    /\ _file' = Set(_file, n, FALSE)
    /\ _timerTask' = Set(_timerTask, n, "deleted")
    /\ hpc' = Set(hpc, n, "dead")
    /\ UNCHANGED <<clockVars, powered, probe, radioVars, _role, _protoState, sweepVars,
                   counterVars, _timerLatch, _resultMessage, snapshotVars, _begin,
                   _hasSD, lastPass, stagedVars, timerVars, notify, _timerUserFn,
                   loopVars, fault, histVars>>

\* sdLoop: the end time is taken and the overrun latch updated.
SdEnd(n) ==
    /\ HandlerAt(n, "S_end")
    /\ _operationEnd' = Set(_operationEnd, n, now)
    /\ _timedEnd' = Set(_timedEnd, n, now)
    /\ _timerLatch' = Set(_timerLatch, n, LatchAfter(n, _operationBegin[n]))
    /\ hpc' = Set(hpc, n, "wait")
    /\ UNCHANGED <<clockVars, powered, probe, radioVars, _role, _protoState, sweepVars,
                   counterVars, _resultMessage, _nextAlarm, _currentPeriod,
                   _operationBegin, _begin, logVars, stagedVars, timerVars,
                   _timerTask, notify, _timerUserFn, loopVars, fault, histVars>>

\* ------------------------------------------------------------ polling loop
\* A handler task that would run at the polling loop's priority: the loop
\* goes on until it yields.
LoopRunsUntilYield(n) == n \in powered

\* The handler task has priority tskIDLE_PRIORITY + 10 on the polling loop's
\* core, and radioSend / radioRecv wait for the radio in a busy loop: the
\* polling loop runs only while the handler task is blocked, waiting for a
\* notification or for the output of sdLoop.
LoopRuns(n) ==
    /\ n \in powered
    /\ \/ _timerTask[n] # "alive"
       \/ hpc[n] = "S_write"
       \/ hpc[n] = "wait" /\ notify[n] = 0

\* loop(), role menu: the user selects this device's role.
LoopMenu(n) ==
    /\ n \in powered
    /\ _role[n] = kUnspecified
    /\ _role' = Set(_role, n, n)
    /\ UNCHANGED <<clockVars, powered, probe, radioVars, _protoState, sweepVars, counterVars,
                   _timerLatch, _resultMessage, snapshotVars, _begin, logVars,
                   stagedVars, timerVars, taskVars, loopVars, fault, histVars>>

\* A sync byte that would keep seven bits of the index.
SyncByteSevenBits(test) == test % 128

\* The byte a uint32_t index leaves in uint8_t message[0].
SyncByte(test) == test % 256

\* The receivers that hear the preamble of a packet that starts now.
HearStart(buf) ==
    [m \in Nodes |-> IF buf[m].st = "listening" THEN [buf[m] EXCEPT !.st = "receiving"]
                     ELSE buf[m]]

\* What the receivers hold when the packet ends: the byte, a damaged packet,
\* or nothing (ch is the fate of the transmission).
HearEnd(buf, byte, ch) ==
    [m \in Nodes |->
        IF buf[m].st # "receiving" THEN buf[m]
        ELSE CASE ch = "intact" -> [st |-> "packet", byte |-> byte]
               [] ch = "corrupt" -> [st |-> "corrupt", byte |-> 0]
               [] OTHER -> Listening]

\* syncLoop up to the radio operation: logInit, then radioSend (kTx) or
\* radioRecv (kRx) is started.  A start that fails returns at once, and
\* syncLoop backs off for a second.
SyncBegin(n) ==
    /\ n \in powered
    /\ _role[n] # kUnspecified
    /\ _protoState[n] = kUninitialized
    /\ lpc[n] = "idle"
    /\ attempts[n] < MaxAttempts
    /\ attempts' = Set(attempts, n, attempts[n] + 1)
    /\ \E sd \in BOOLEAN :
        /\ _hasSD' = Set(_hasSD, n, sd)
        /\ _file' = Set(_file, n, sd)
    /\ syncMessage' = Set(syncMessage, n, SyncByte(_currentTest[n]))
    /\ \E started \in BOOLEAN :
        IF started /\ (_role[n] = kRx \/ air = NoPacket)
        THEN /\ lpc' = Set(lpc, n, "sync_radio")
             /\ wakeAt' = wakeAt
             /\ IF _role[n] = kTx
                THEN /\ air' = [from |-> n, byte |-> SyncByte(_currentTest[n])]
                     /\ rxBuf' = HearStart(rxBuf)
                ELSE /\ air' = air
                     /\ rxBuf' = Set(rxBuf, n, Listening)
        ELSE /\ lpc' = Set(lpc, n, "backoff")
             /\ wakeAt' = Set(wakeAt, n, now + SyncBackoff)
             /\ UNCHANGED radioVars
    /\ UNCHANGED <<clockVars, powered, probe, _role, _protoState, sweepVars, counterVars,
                   _timerLatch, _resultMessage, snapshotVars, _begin, lastPass,
                   stagedVars, timerVars, taskVars, aborted, fault, histVars>>

\* An origin offset that would be given to both roles.
OriginOffsetBoth(role) == TX_DELAY

\* The origin offset timerStart adds to the first period: TX_DELAY for the
\* sender.
OriginOffset(role) == IF role = kTx THEN TX_DELAY ELSE 0

\* A commit that would keep the index the node held.
SyncCommitKeepsIndex(n, byte) ==
    LET upd == UpdateTestParameters(_currentTest[n])
        totalBudget == TotalBudget(upd.params)
    IN  /\ _currentTest' = Set(_currentTest, n, upd.test)
        /\ _parameters' = Set(_parameters, n, upd.params)
        /\ _timerUserFn' = Set(_timerUserFn, n, timedLoopFn)
        /\ _timerTask' = Set(_timerTask, n, "alive")
        /\ hpc' = Set(hpc, n, "wait")
        /\ notify' = Set(notify, n, 0)
        /\ timerArmed' = Set(timerArmed, n, TRUE)
        /\ timerPeriod' = Set(timerPeriod, n,
                totalBudget + OriginOffset(_role[n]))
        /\ timerAlarm' = Set(timerAlarm, n,
                now + totalBudget + OriginOffset(_role[n]))
        /\ _timerNextPeriod' = Set(_timerNextPeriod, n, totalBudget)
        /\ _timerNextUserFn' = Set(_timerNextUserFn, n, timedLoopFn)
        /\ stagedCall' = Set(stagedCall, n, [micro |-> totalBudget, fn |-> timedLoopFn])
        /\ slotStart' = Set(slotStart, n, now)
        /\ _begin' = Set(_begin, n, now)
        /\ _protoState' = Set(_protoState, n, kRunning)
        /\ lpc' = Set(lpc, n, "idle")
        /\ wakeAt' = wakeAt

\* syncLoop after a successful radio operation (lines 273-287): the index is
\* adopted, timerStart arms the timer and creates the handler task,
\* timerResync stages the plain period, and the state becomes kRunning.
SyncCommit(n, byte) ==
    LET upd == UpdateTestParameters(byte)
        totalBudget == TotalBudget(upd.params)
    IN  /\ _currentTest' = Set(_currentTest, n, upd.test)
        /\ _parameters' = Set(_parameters, n, upd.params)
        /\ _timerUserFn' = Set(_timerUserFn, n, timedLoopFn)
        /\ _timerTask' = Set(_timerTask, n, "alive")
        /\ hpc' = Set(hpc, n, "wait")
        /\ notify' = Set(notify, n, 0)
        /\ timerArmed' = Set(timerArmed, n, TRUE)
        /\ timerPeriod' = Set(timerPeriod, n,
                totalBudget + OriginOffset(_role[n]))
        /\ timerAlarm' = Set(timerAlarm, n,
                now + totalBudget + OriginOffset(_role[n]))
        /\ _timerNextPeriod' = Set(_timerNextPeriod, n, totalBudget)
        /\ _timerNextUserFn' = Set(_timerNextUserFn, n, timedLoopFn)
        /\ stagedCall' = Set(stagedCall, n, [micro |-> totalBudget, fn |-> timedLoopFn])
        /\ slotStart' = Set(slotStart, n, now)
        /\ _begin' = Set(_begin, n, now)
        /\ _protoState' = Set(_protoState, n, kRunning)
        /\ lpc' = Set(lpc, n, "idle")
        /\ wakeAt' = wakeAt

\* A failed handshake that would return without delay(1000).
SyncRetryNoDelay(n) ==
    /\ lpc' = Set(lpc, n, "backoff")
    /\ wakeAt' = Set(wakeAt, n, now)
    /\ UNCHANGED <<_currentTest, _parameters, _timerUserFn, _timerTask, hpc, notify,
                   timerVars, stagedVars, stagedCall, slotStart, _begin, _protoState, due, served>>

\* syncLoop after a failed radio operation: delay(1000) and return.
SyncRetry(n) ==
    /\ lpc' = Set(lpc, n, "backoff")
    /\ wakeAt' = Set(wakeAt, n, now + SyncBackoff)
    /\ UNCHANGED <<_currentTest, _parameters, _timerUserFn, _timerTask, hpc, notify,
                   timerVars, stagedVars, stagedCall, slotStart, _begin, _protoState, due, served>>

\* radioSend returns in syncLoop: the packet has left the antenna, whatever
\* became of it on the way, and finishTransmit reports a status.
SyncSendDone(n) ==
    /\ n \in powered
    /\ _role[n] = kTx
    /\ lpc[n] = "sync_radio"
    /\ air.from = n
    /\ \E ch \in {"intact", "corrupt", "lost"} : rxBuf' = HearEnd(rxBuf, air.byte, ch)
    /\ air' = NoPacket
    /\ \E error \in {kNone, kUnknown} :
        IF error = kNone THEN SyncCommit(n, syncMessage[n]) ELSE SyncRetry(n)
    /\ UNCHANGED <<clockVars, powered, probe, _role, _messageIndex, _results, counterVars,
                   _timerLatch, _resultMessage, snapshotVars, logVars, syncMessage,
                   attempts, aborted, fault,
                   ticks, invocations, radioOps, comboSlots, passes, due, served>>

\* radioRecv returns in syncLoop: with the byte received (kNone) or with a
\* damaged packet (kCrc).  It is called without a timeout, so it does not
\* return while nothing arrives.
SyncRecvDone(n) ==
    /\ n \in powered
    /\ _role[n] = kRx
    /\ lpc[n] = "sync_radio"
    /\ rxBuf[n].st \in {"packet", "corrupt"}
    /\ rxBuf' = Set(rxBuf, n, RadioIdle)
    /\ IF rxBuf[n].st = "packet"
       THEN /\ syncMessage' = Set(syncMessage, n, rxBuf[n].byte)
            /\ SyncCommit(n, rxBuf[n].byte)
       ELSE /\ syncMessage' = syncMessage
            /\ SyncRetry(n)
    /\ UNCHANGED <<clockVars, powered, probe, air, _role, _messageIndex, _results, counterVars,
                   _timerLatch, _resultMessage, snapshotVars, logVars,
                   attempts, aborted, fault,
                   ticks, invocations, radioOps, comboSlots, passes, due, served>>

\* The end of delay(1000): syncLoop returns and loop() will call it again.
SyncBackoffDone(n) ==
    /\ n \in powered
    /\ lpc[n] = "backoff"
    /\ now >= wakeAt[n]
    /\ lpc' = Set(lpc, n, "idle")
    /\ UNCHANGED <<clockVars, powered, probe, radioVars, _role, _protoState, sweepVars,
                   counterVars, _timerLatch, _resultMessage, snapshotVars, _begin,
                   logVars, stagedVars, timerVars, taskVars, wakeAt, syncMessage,
                   attempts, aborted, fault, histVars>>

\* The sync bytes an unmodelled transmitter may send: the last MaxCombos
\* indices of the sweep.
SyncBytes == (TotalCombinations - MaxCombos)..(TotalCombinations - 1)

\* A transmitter that is not modelled sends a sync packet while this device
\* listens.
PeerPacket(n) ==
    /\ powered = {n}
    /\ rxBuf[n].st = "listening"
    /\ \E b \in SyncBytes, ch \in {"intact", "corrupt"} :
        rxBuf' = HearEnd(HearStart(rxBuf), b, ch)
    /\ UNCHANGED <<clockVars, powered, probe, air, _role, _protoState, sweepVars, counterVars,
                   _timerLatch, _resultMessage, snapshotVars, _begin, logVars,
                   stagedVars, timerVars, taskVars, loopVars, fault, histVars>>

\* The index of the combination with the longest time on air: the last
\* spreading factor and coding rate with the first (narrowest) bandwidth, at
\* the last power.
SlowestTest ==
    (((Len(PowerTable) - 1) * Len(SfTable) + (Len(SfTable) - 1)) * Len(CrTable)
        + (Len(CrTable) - 1)) * Len(BwTable)

\* The unmodelled transmitter is at the slowest combination when this device
\* listens.
PeerPacketSlowest(n) ==
    /\ powered = {n}
    /\ rxBuf[n].st = "listening"
    /\ \E ch \in {"intact", "corrupt"} :
        rxBuf' = HearEnd(HearStart(rxBuf), SlowestTest, ch)
    /\ UNCHANGED <<clockVars, powered, probe, air, _role, _protoState, sweepVars, counterVars,
                   _timerLatch, _resultMessage, snapshotVars, _begin, logVars,
                   stagedVars, timerVars, taskVars, loopVars, fault, histVars>>

\* loop(), kRunning and kFinished branches: the status line is drawn from the
\* shared state (finishedLoop draws the final screen).  The screen is not
\* part of the state: drawing changes nothing the program reads.
StatusTexts ==
    {"Testes finalizados!", "(desync!)", "(...)", "(escrevendo...)"}
        \cup {ResultMessage(e) : e \in RadioErrors}

StatusText(n) ==
    IF _protoState[n] = kFinished THEN "Testes finalizados!"
    ELSE IF _timerLatch[n] THEN "(desync!)" ELSE _resultMessage[n]

LoopRender(n) ==
    /\ LoopRuns(n)
    /\ lpc[n] = "idle"
    /\ _protoState[n] \in {kRunning, kFinished}
    /\ StatusText(n) \in StatusTexts
    /\ UNCHANGED <<clockVars, powered, probe, radioVars, _role, _protoState, sweepVars,
                   counterVars, _timerLatch, _resultMessage, snapshotVars, _begin,
                   logVars, stagedVars, timerVars, taskVars, lpc, wakeAt, syncMessage,
                   attempts, aborted, fault, histVars>>

\* loop(), kRunning branch, a display frame in two steps: the radio is not
\* busy and the frame is begun (uiLoop, uiClear, the overlay and the bars),
\* then sent to the display (uiFinish).
LoopFrameBegin(n) ==
    /\ LoopRuns(n)
    /\ lpc[n] = "idle"
    /\ _protoState[n] = kRunning
    /\ lpc' = Set(lpc, n, "frame")
    /\ UNCHANGED <<clockVars, powered, probe, radioVars, _role, _protoState, sweepVars,
                   counterVars, _timerLatch, _resultMessage, snapshotVars, _begin,
                   logVars, stagedVars, timerVars, taskVars, wakeAt, syncMessage,
                   attempts, aborted, fault, histVars>>

LoopFrameEnd(n) ==
    /\ LoopRuns(n)
    /\ lpc[n] = "frame"
    /\ StatusText(n) \in StatusTexts
    /\ lpc' = Set(lpc, n, "idle")
    /\ UNCHANGED <<clockVars, powered, probe, radioVars, _role, _protoState, sweepVars,
                   counterVars, _timerLatch, _resultMessage, snapshotVars, _begin,
                   logVars, stagedVars, timerVars, taskVars, wakeAt, syncMessage,
                   attempts, aborted, fault, histVars>>

\* loop(), abort path, first call: the button is down and logClose() runs.
LoopAbortClose(n) ==
    /\ LoopRuns(n)
    /\ lpc[n] = "idle"
    /\ _protoState[n] = kRunning
    /\ _file' = Set(_file, n, FALSE)
    /\ lpc' = Set(lpc, n, "abort_stop")
    /\ UNCHANGED <<clockVars, powered, probe, radioVars, _role, _protoState, sweepVars,
                   counterVars, _timerLatch, _resultMessage, snapshotVars, _begin,
                   _hasSD, lastPass, stagedVars, timerVars, taskVars, wakeAt,
                   syncMessage, attempts, aborted, fault, histVars>>

\* An abort path whose timerStop() would delete the handler task and leave
\* the esp_timer armed.
LoopAbortStopKeepsTimer(n) ==
    /\ LoopRuns(n)
    /\ lpc[n] = "abort_stop"
    /\ _timerTask' = Set(_timerTask, n, "deleted")
    /\ hpc' = Set(hpc, n, "dead")
    /\ lpc' = Set(lpc, n, "abort_state")
    /\ UNCHANGED <<clockVars, powered, probe, radioVars, _role, _protoState, sweepVars,
                   counterVars, _timerLatch, _resultMessage, snapshotVars, _begin,
                   logVars, stagedVars, timerVars, notify, _timerUserFn,
                   wakeAt, syncMessage, attempts, aborted, fault, histVars>>

\* An abort path whose timerStop() would disarm the esp_timer and let the
\* handler task live.
LoopAbortStopKeepsTask(n) ==
    /\ LoopRuns(n)
    /\ lpc[n] = "abort_stop"
    /\ timerArmed' = Set(timerArmed, n, FALSE)
    /\ lpc' = Set(lpc, n, "abort_state")
    /\ UNCHANGED <<clockVars, powered, probe, radioVars, _role, _protoState, sweepVars,
                   counterVars, _timerLatch, _resultMessage, snapshotVars, _begin,
                   logVars, stagedVars, timerPeriod, timerAlarm, taskVars,
                   wakeAt, syncMessage, attempts, aborted, fault, histVars>>

\* timerStop() called from the polling loop: vTaskDelete ends the handler
\* task wherever it is, then esp_timer_stop disarms the timer.  Deleting a
\* task that has already deleted itself is undefined.
LoopAbortStop(n) ==
    /\ LoopRuns(n)
    /\ lpc[n] = "abort_stop"
    /\ _timerTask' = Set(_timerTask, n, "deleted")
    /\ hpc' = Set(hpc, n, "dead")
    /\ IF _timerTask[n] = "alive"
       THEN fault' = fault
       ELSE \E f \in {fault[n], TRUE} : fault' = Set(fault, n, f)
    /\ timerArmed' = Set(timerArmed, n, FALSE)
    /\ lpc' = Set(lpc, n, "abort_state")
    /\ UNCHANGED <<clockVars, powered, probe, radioVars, _role, _protoState, sweepVars,
                   counterVars, _timerLatch, _resultMessage, snapshotVars, _begin,
                   logVars, stagedVars, timerPeriod, timerAlarm, notify, _timerUserFn,
                   wakeAt, syncMessage, attempts, aborted, histVars>>

\* An abort path that would write _protoState before calling timerStop().
LoopAbortStateEarly(n) ==
    /\ LoopRuns(n)
    /\ lpc[n] = "abort_stop"
    /\ _protoState' = Set(_protoState, n, kFinished)
    /\ aborted' = Set(aborted, n, TRUE)
    /\ lpc' = Set(lpc, n, "idle")
    /\ UNCHANGED <<clockVars, powered, probe, radioVars, _role, sweepVars, counterVars,
                   _timerLatch, _resultMessage, snapshotVars, _begin, logVars,
                   stagedVars, timerVars, taskVars, wakeAt, syncMessage,
                   attempts, fault, histVars>>

\* loop(), abort path, last statement: _protoState = kFinished.
LoopAbortState(n) ==
    /\ LoopRuns(n)
    /\ lpc[n] = "abort_state"
    /\ _protoState' = Set(_protoState, n, kFinished)
    /\ aborted' = Set(aborted, n, TRUE)
    /\ lpc' = Set(lpc, n, "idle")
    /\ UNCHANGED <<clockVars, powered, probe, radioVars, _role, sweepVars, counterVars,
                   _timerLatch, _resultMessage, snapshotVars, _begin, logVars,
                   stagedVars, timerVars, taskVars, wakeAt, syncMessage,
                   attempts, fault, histVars>>

\* ----------------------------------------------------------- specifications
\* ------------------------------------------- functions called on their own
\* Everything but the probe.
deviceVars == <<clockVars, powered, radioVars, _role, _protoState, sweepVars,
                counterVars, _timerLatch, _resultMessage, snapshotVars, _begin,
                logVars, stagedVars, timerVars, taskVars, loopVars, fault, histVars>>

\* updateTestParameters() is called with _currentTest = index, any value a
\* sync byte can carry.
CallUpdateTestParameters ==
    /\ probe = NoProbe
    /\ \E index \in 0..ByteMax :
        probe' = [fn |-> "updateTestParameters", index |-> index,
                  out |-> UpdateTestParameters(index)]
    /\ UNCHANGED deviceVars

TimerStep(n) == TimerCallback(n)

HandlerStep(n) ==
    \/ TimedBegin(n) \/ TimedRadio(n) \/ TimedResync1(n) \/ TimedResync2(n)
    \/ TimedEnd(n)
    \/ SdBegin(n) \/ SdWrite(n) \/ SdResync1(n) \/ SdResync2(n) \/ SdStop(n)
    \/ SdEnd(n)

SyncStep(n) ==
    \/ LoopMenu(n) \/ SyncBegin(n) \/ SyncSendDone(n) \/ SyncRecvDone(n)
    \/ SyncBackoffDone(n)

LoopStep(n) ==
    \/ SyncStep(n)
    \/ LoopRender(n) \/ LoopAbortClose(n) \/ LoopAbortStop(n) \/ LoopAbortState(n)

Next ==
    \/ AdvanceToEvent
    \/ AdvanceEps
    \/ \E n \in Nodes : TimerStep(n) \/ HandlerStep(n) \/ LoopStep(n) \/ PeerPacket(n)

\* One device, from power-on to the end of its sweep.
Spec == Init /\ [][Next]_vars

NextSlowest == Next \/ \E n \in Nodes : PeerPacketSlowest(n)

\* One device, whose peer may also be at the slowest combination.
SpecSlowest == Init /\ [][NextSlowest]_vars

NextSync ==
    \/ AdvanceToEvent
    \/ \E n \in Nodes : SyncStep(n)

\* Both devices, through the handshake.
SpecSync == InitPair /\ [][NextSync]_vars

\* A run of advances begins at some index of the sweep.
CallAdvanceFirst ==
    /\ probe = NoProbe
    /\ \E start \in 0..(TotalCombinations - 1) :
        probe' = [fn |-> "advance", start |-> start, index |-> start,
                  calls |-> 0, wraps |-> 0, wrappedFrom |-> start]
    /\ UNCHANGED deviceVars

\* The next advance of the run, up to TotalCombinations of them.
CallAdvanceNext ==
    /\ probe.fn = "advance"
    /\ probe.calls < TotalCombinations
    /\ LET upd == Advance(probe.index)
       IN  probe' = [probe EXCEPT
                        !.index = upd.test,
                        !.calls = @ + 1,
                        !.wraps = @ + (IF upd.wasInvalidTest THEN 1 ELSE 0),
                        !.wrappedFrom = IF upd.wasInvalidTest THEN probe.index ELSE @]
    /\ UNCHANGED deviceVars

\* The parameters of the sweep that enter the time on air.
AirParameters ==
    {[bandwidth |-> bw, cr |-> cr, sf |-> sf, power |-> InitialParameters.power] :
        bw \in Entries(BwTable), cr \in Entries(CrTable), sf \in Entries(SfTable)}

\* The parameters of a combination are handed to the radio with
\* radioSetParameters(param), as updateTestParameters does, and
\* radioTransmitTime(param, packetLength) is called for a payload length, as
\* sdLoop and timedLoop do.
CallRadioTransmitTime ==
    /\ probe = NoProbe
    /\ \E param \in AirParameters, packetLength \in 0..MaxPacketLength :
        probe' = [fn |-> "radioTransmitTime", param |-> param,
                  packetLength |-> packetLength,
                  modulation |-> RadioSetParameters(param),
                  denominator |-> Denominator(param),
                  out |-> RadioTransmitTime(param, packetLength)]
    /\ UNCHANGED deviceVars

\* radioRecv is called with the buffer of the handshake (one byte) or of a
\* measurement slot (MessageLength bytes), and a packet of any length
\* arrives.
CallRadioRecv ==
    /\ probe = NoProbe
    /\ \E capacity \in {1, MessageLength}, msgLength \in 0..MaxPacketLength :
        probe' = [fn |-> "radioRecv", capacity |-> capacity, msgLength |-> msgLength,
                  out |-> RadioRecv(capacity, msgLength)]
    /\ UNCHANGED deviceVars

\* The index of the handshake: the sender writes its index into message[0],
\* and the receiver stores message[0] in _currentTest and calls
\* updateTestParameters.
CallSyncRoundTrip ==
    /\ probe = NoProbe
    /\ \E index \in 0..MaxTestIndex :
        probe' = [fn |-> "sync", index |-> index, byte |-> SyncByte(index),
                  adopted |-> UpdateTestParameters(SyncByte(index)).test]
    /\ UNCHANGED deviceVars

NextFn ==
    \/ CallUpdateTestParameters
    \/ CallAdvanceFirst
    \/ CallAdvanceNext
    \/ CallRadioTransmitTime
    \/ CallRadioRecv
    \/ CallSyncRoundTrip

\* The functions of the parameter space and of the time-on-air model, each
\* called on its own with inputs from its domain.
SpecFn == InitWith({}) /\ [][NextFn]_vars

\* Time passes while no handler is executing: no slot is overrun.
AdvanceOnTime == AdvanceToEvent /\ irregular' = irregular

\* A radio operation of a slot that succeeds.
TimedRadioOk(n) == TimedRadio(n) /\ irregular' = irregular

\* The steps of a sweep that does not reach its end.
SweepStep(n) ==
    \/ TimerCallback(n)
    \/ TimedBegin(n) \/ TimedRadioOk(n) \/ TimedResync1(n) \/ TimedResync2(n)
    \/ TimedEnd(n)
    \/ SdBegin(n) \/ SdWrite(n) \/ SdResync1(n) \/ SdResync2(n) \/ SdEnd(n)

NextPair ==
    \/ AdvanceOnTime
    \/ \E n \in Nodes : SyncStep(n) \/ SweepStep(n)

\* Both devices, through the handshake and the first slots of the sweep,
\* with radio operations that succeed and handlers that end within their
\* slots.
SpecPair == InitPair /\ [][NextPair]_vars

NextFrame ==
    \/ NextPair
    \/ \E n \in Nodes : LoopFrameBegin(n) \/ LoopFrameEnd(n)

\* Both devices as in SpecPair, with the display frames of the polling loop
\* drawn in two steps.
SpecFrame == InitPair /\ [][NextFrame]_vars


\* ------------------------------------------------------------------ claims
\* A device's handshake attempt is over: it has made one, and it is neither
\* in its radio operation nor between two statements of syncLoop.
AttemptOver(n) == attempts[n] >= 1 /\ lpc[n] \in {"idle", "backoff"}

\* C1: handshake atomicity.  Once both devices' attempts are over, either
\* both are still kUninitialized or both are kRunning with the same
\* _currentTest; never one committed and the other not.
C1_HandshakeAtomic ==
    (\A n \in Nodes : AttemptOver(n)) =>
        \/ \A n \in Nodes : _protoState[n] = kUninitialized
        \/ /\ \A n \in Nodes : _protoState[n] = kRunning
           /\ _currentTest[kTx] = _currentTest[kRx]


\* A step of _timerCallback on device n.
IsTick(n) == ticks'[n] = ticks[n] + 1

\* C2: a two-argument timerResync is applied as a pair.  At a tick that
\* applies the period staged by timerResync(micro, fn), the handler left in
\* _timerUserFn is fn.
C2_ResyncAppliedAsPair ==
    [][\A n \in Nodes :
        (IsTick(n) /\ _timerNextPeriod[n] > 0 /\ stagedCall[n] # NoCall)
            => _timerUserFn'[n] = stagedCall[n].fn]_vars

\* C3: one handler invocation per tick.  Whenever the handler task has
\* caught up (it waits and no notification is pending), it has been invoked
\* as many times as the timer has ticked.
C3_OneInvocationPerTick ==
    \A n \in Nodes :
        (_timerTask[n] = "alive" /\ hpc[n] = "wait" /\ notify[n] = 0)
            => invocations[n] = ticks[n]

\* C5: after the handler that detects the wrap has called logClose() and
\* timerStop(), the timer produces no further tick.
C5_StoppedAfterSweep ==
    [][\A n \in Nodes :
        (_protoState[n] = kFinished /\ hpc[n] = "dead" /\ lpc[n] = "idle"
            /\ ~aborted[n]) => ~IsTick(n)]_vars

\* C6: timerStop() never cuts short a handler that is executing: no step
\* ends the handler task while it is inside a handler.
C6_StopLetsHandlerFinish ==
    [][\A n \in Nodes :
        hpc[n] \notin {"none", "wait", "dead"} => hpc'[n] # "dead"]_vars

\* C7: the sweep.  Every combination gets at most MESSAGES_PER_TEST message
\* slots before its index advances, the index stays in
\* [0, TotalCombinations), and without an abort the state is kFinished only
\* with the index wrapped to 0.
C7_SweepInOrder ==
    \A n \in Nodes :
        /\ comboSlots[n] <= MESSAGES_PER_TEST
        /\ _currentTest[n] \in 0..(TotalCombinations - 1)
        /\ (_protoState[n] = kFinished /\ ~aborted[n] /\ lpc[n] = "idle")
                => _currentTest[n] = 0

C4_ResyncKeepsCurrentSlot ==
    [][\A n \in Nodes :
        /\ (timerArmed[n] /\ ~IsTick(n) /\ _timerNextPeriod'[n] # _timerNextPeriod[n])
                => timerAlarm'[n] = timerAlarm[n]
        /\ IsTick(n) => now = slotStart[n] + timerPeriod[n]
        /\ (IsTick(n) /\ _timerNextPeriod[n] > 0)
                => /\ timerAlarm'[n] = now + _timerNextPeriod[n]
                   /\ timerPeriod'[n] = _timerNextPeriod[n]]_vars

\* C4, its case: sdLoop has run in a slot of SD_BUDGET staged by timedLoop in
\* mid-slot, and the tick that ended that slot has applied the next period.
C4_Witness ==
    \E n \in Nodes :
        /\ passes[n] >= 1
        /\ _currentPeriod[n] = SD_BUDGET
        /\ timerArmed[n]
        /\ timerPeriod[n] # SD_BUDGET
        /\ slotStart[n] = _operationBegin[n] + SD_BUDGET

\* The values C9 is about, of device n.
CountersOf(n) == <<_testsOk[n], _testsCorrupt[n], _testsLost[n]>>
SnapshotOf(n) ==
    <<_nextAlarm[n], _currentPeriod[n], _operationBegin[n], _operationEnd[n],
      _timedEnd[n]>>

\* A step of the handler task of device n: the task is alive and moves, and
\* the polling loop stays where it is.
IsHandlerStep(n) ==
    /\ _timerTask[n] = "alive"
    /\ hpc'[n] # hpc[n]
    /\ lpc'[n] = lpc[n]

\* A step of the polling loop of device n.
IsLoopStep(n) == lpc'[n] # lpc[n] \/ _role'[n] # _role[n]

C10_AbortStopsEverything ==
    [][\A n \in Nodes :
        /\ (IsLoopStep(n) /\ _protoState[n] = kRunning /\ _protoState'[n] = kFinished)
                => ~_file[n] /\ ~timerArmed[n] /\ _timerTask[n] # "alive"
        /\ aborted[n]
                => /\ ticks'[n] = ticks[n]
                   /\ invocations'[n] = invocations[n]
                   /\ radioOps'[n] = radioOps[n]
                   /\ _protoState'[n] = kFinished
                   /\ hpc'[n] = hpc[n]
                   /\ ~_file'[n] /\ ~timerArmed'[n]]_vars

\* C10, its case: an abort during a running sweep, with the log open and a
\* handler already served.
C10_Witness ==
    \E n \in Nodes :
        /\ aborted[n] /\ _hasSD[n]
        /\ invocations[n] >= 1 /\ _currentTest[n] # 0


\* A handler of device n ends with this step: the handler task returns to
\* ulTaskNotifyTake, or it is ended by its own timerStop().
HandlerEnds(n) == IsHandlerStep(n) /\ hpc'[n] \in {"wait", "dead"}

\* C11: an overrun sets the latch.  When a handler ends more than the slot's
\* period after the tick it serves, the latch is true once it has ended.
C11_OverrunSetsLatch ==
    [][\A n \in Nodes :
        (HandlerEnds(n) /\ now - served[n].tick > served[n].period)
            => _timerLatch'[n]]_vars


\* C12: the latch is sticky.  No step of any context turns a true
\* _timerLatch back to false.
C12_LatchSticky ==
    [][\A n \in Nodes : _timerLatch[n] => _timerLatch'[n]]_vars

\* C12, its case: the latch is set and a later handler has ended within its
\* period.
C12_Witness ==
    \E n \in Nodes :
        /\ _timerLatch[n]
        /\ hpc[n] = "wait" /\ notify[n] = 0
        /\ invocations[n] >= 2
        /\ _timedEnd[n] - _operationBegin[n] <= _currentPeriod[n]


\* C13: one radio operation per tick while Running.  Whenever the
\* handler task of a Running node has caught up, the node has performed as
\* many radio operations as its timer has ticked.
C13_OneRadioOpPerTick ==
    \A n \in Nodes :
        (_timerTask[n] = "alive" /\ hpc[n] = "wait" /\ notify[n] = 0
            /\ _protoState[n] = kRunning) => radioOps[n] = ticks[n]

\* A step that performs the radio operation of a slot.
IsRadioStep(n) == radioOps'[n] = radioOps[n] + 1

\* C14: the outcome of a radio operation does not alter the course of the
\* sweep.  Whatever the outcome, the step that ends the radio operation
\* leaves the protocol state, the timer, the staged resync, the handler and
\* the combination as they are, advances the message index by one, and goes
\* on to the same next position of the handler.
C14_OutcomesAreData ==
    [][\A n \in Nodes :
        IsRadioStep(n) =>
            /\ _protoState' = _protoState
            /\ timerVars' = timerVars
            /\ stagedVars' = stagedVars
            /\ _timerTask' = _timerTask /\ _timerUserFn' = _timerUserFn
            /\ notify' = notify
            /\ _currentTest' = _currentTest /\ _parameters' = _parameters
            /\ _messageIndex'[n] = _messageIndex[n] + 1
            /\ hpc'[n] = IF _messageIndex[n] + 1 = MESSAGES_PER_TEST
                         THEN "T_resync1" ELSE "T_end"
            /\ comboSlots' = comboSlots /\ passes' = passes]_vars

\* C14, its case: a sweep that has recorded a failed message has gone on to
\* its end.
C14_Witness ==
    \E n \in Nodes :
        /\ _testsLost[n] + _testsCorrupt[n] >= 1
        /\ passes[n] >= 1
        /\ _protoState[n] = kFinished /\ ~aborted[n]

\* A step in which an attempt of syncLoop fails.
IsSyncFailure(n) == lpc[n] \in {"idle", "sync_radio"} /\ lpc'[n] = "backoff"

\* C15: a failed handshake changes nothing and is retried after the backoff.
\* The step in which an attempt fails leaves the node kUninitialized with its
\* index and parameters, with no timer and no handler task, and sets the
\* end of the backoff SyncBackoff after now; a further attempt begins no
\* earlier than that.
C15_FailedHandshakeRetries ==
    [][\A n \in Nodes :
        /\ IsSyncFailure(n) =>
            /\ _protoState'[n] = kUninitialized
            /\ _currentTest'[n] = _currentTest[n]
            /\ _parameters'[n] = _parameters[n]
            /\ ~timerArmed'[n] /\ _timerTask'[n] = NULL
            /\ _timerNextPeriod'[n] = 0
            /\ wakeAt'[n] = now + SyncBackoff
        /\ (attempts[n] >= 1 /\ attempts'[n] = attempts[n] + 1) => now >= wakeAt[n]]_vars

\* C15, its case: a second attempt in a row has failed.
C15_Witness ==
    \E n \in Nodes :
        /\ attempts[n] = 2 /\ lpc[n] = "backoff"
        /\ _protoState[n] = kUninitialized
        /\ now >= 2 * SyncBackoff

\* A step in which an attempt of syncLoop succeeds.
IsSyncCommit(n) == _protoState[n] = kUninitialized /\ _protoState'[n] = kRunning

\* C16: the index after a successful handshake.  The receiver leaves the
\* handshake with the index its radio received, the sender with the index it
\* held, which is the index its packet carried; each has the parameters that
\* index decodes to.
C16_IndexAdopted ==
    [][\A n \in Nodes :
        IsSyncCommit(n) =>
            /\ _role[n] = kRx => _currentTest'[n] = rxBuf[n].byte
            /\ _role[n] = kTx => /\ _currentTest'[n] = _currentTest[n]
                                 /\ air.byte = _currentTest[n]
            /\ _parameters'[n] = Decode(_currentTest'[n])]_vars

\* C16, its case: a receiver has overwritten its index with the one received
\* and has taken that index's parameters.
C16_Witness ==
    \E n \in Nodes :
        /\ _role[n] = kRx /\ _protoState[n] = kRunning /\ ticks[n] = 0
        /\ _currentTest[n] = TotalCombinations - 1
        /\ _parameters[n] = Decode(TotalCombinations - 1)
        /\ _parameters[n] # InitialParameters

\* The step in which node n begins the radio operation of its first slot.
IsFirstOperation(n) == invocations[n] = 0 /\ invocations'[n] = 1

\* C17: the origin offset.  The first tick of a node comes one period after
\* its timer start, and TX_DELAY later on the sender; each further tick of
\* the first combination comes one plain period after the tick before it;
\* and when the sender begins its first operation, a receiver that has
\* left the handshake has begun its own before.
C17_OriginOffset ==
    [][\A n \in Nodes :
        /\ (IsTick(n) /\ ticks[n] = 0) =>
              now = _begin[n] + TotalBudget(_parameters[n])
                        + (IF _role[n] = kTx THEN TX_DELAY ELSE 0)
        /\ (IsTick(n) /\ ticks[n] \in 1..MESSAGES_PER_TEST /\ passes[n] = 0) =>
              now = slotStart[n] + TotalBudget(_parameters[n])
        /\ (_role[n] = kTx /\ IsFirstOperation(n)) =>
              \A m \in Nodes :
                  (_role[m] = kRx /\ _protoState[m] = kRunning) =>
                      invocations[m] >= 1 /\ _begin[m] <= _begin[n]]_vars

\* C17, its case: both nodes have left the handshake and served the slots of
\* the first combination, the sender TX_DELAY behind the receiver.
C17_Witness ==
    /\ \A n \in Nodes : _protoState[n] = kRunning /\ ticks[n] > MESSAGES_PER_TEST
    /\ _begin[kTx] = _begin[kRx]
    /\ slotStart[kTx] = slotStart[kRx] + TX_DELAY

\* C18: the period of a measurement slot.  While timedLoop is executing,
\* the period it has read from the timer is the time on air of a message
\* under the current combination plus BUDGET.
C18_PeriodOfCombination ==
    \A n \in Nodes :
        (_timerTask[n] = "alive"
            /\ hpc[n] \in {"T_radio", "T_resync1", "T_resync2", "T_end"})
        => _currentPeriod[n]
               = RadioTransmitTime(Decode(_currentTest[n]), MessageLength) + BUDGET

\* C19: a staged resync is consumed at the next tick.  After every tick the
\* pending period and the pending handler are empty, and a tick with no
\* timerResync call since the tick before leaves period and handler as they
\* are.
C19_StagedConsumedOnce ==
    [][\A n \in Nodes :
        IsTick(n) =>
            /\ _timerNextPeriod'[n] = 0
            /\ _timerNextUserFn'[n] = NULL
            /\ stagedCall[n] = NoCall =>
                  /\ timerPeriod'[n] = timerPeriod[n]
                  /\ _timerUserFn'[n] = _timerUserFn[n]]_vars

\* Both nodes have left the same handshake and are in their sweeps.
InLockStep ==
    /\ \A n \in Nodes : _protoState[n] = kRunning /\ _timerTask[n] = "alive"
    /\ _begin[kTx] = _begin[kRx]

\* C20: lock-step.  After a common handshake and without overruns the
\* sender is never ahead of the receiver and never more than one invocation
\* behind; when both have ended their k-th invocation they have made the
\* same number of measurement and persistence invocations, hold the same
\* index, message index and period, and the tick the sender served is
\* TX_DELAY after the one the receiver served.
C20_LockStep ==
    InLockStep =>
        /\ invocations[kTx] <= invocations[kRx]
        /\ invocations[kRx] <= invocations[kTx] + 1
        /\ (invocations[kTx] = invocations[kRx] /\ invocations[kTx] >= 1
                /\ hpc[kTx] = "wait" /\ hpc[kRx] = "wait") =>
              /\ radioOps[kTx] = radioOps[kRx]
              /\ passes[kTx] = passes[kRx]
              /\ _currentTest[kTx] = _currentTest[kRx]
              /\ _messageIndex[kTx] = _messageIndex[kRx]
              /\ _currentPeriod[kTx] = _currentPeriod[kRx]
              /\ served[kTx].period = served[kRx].period
              /\ served[kTx].tick = served[kRx].tick + TX_DELAY

\* C20, its case: both nodes have gone through the first combination, its
\* persistence slot and a slot of the next combination.
C20_Witness ==
    /\ InLockStep
    /\ invocations[kTx] = MESSAGES_PER_TEST + 2
    /\ invocations[kRx] = MESSAGES_PER_TEST + 2
    /\ hpc[kTx] = "wait" /\ hpc[kRx] = "wait"
    /\ passes[kTx] = 1 /\ _currentTest[kTx] = 1 /\ _messageIndex[kTx] = 1

\* C21: decode draws from the tables and is injective.  For an index below
\* TotalCombinations the four parameters are entries of their tables, and no
\* other index below TotalCombinations decodes to the same parameters.
C21_DecodeInjective ==
    (probe.fn = "updateTestParameters" /\ probe.index < TotalCombinations) =>
        /\ probe.out.params.bandwidth \in Entries(BwTable)
        /\ probe.out.params.cr \in Entries(CrTable)
        /\ probe.out.params.sf \in Entries(SfTable)
        /\ probe.out.params.power \in Entries(PowerTable)
        /\ \A other \in 0..(TotalCombinations - 1) :
              other # probe.index =>
                  UpdateTestParameters(other).params # probe.out.params

\* C21, its case: the last index of the sweep has been decoded.
C21_Witness ==
    /\ probe.fn = "updateTestParameters"
    /\ probe.index = TotalCombinations - 1
    /\ probe.out.test = probe.index

\* C22: decode reads the index as a mixed-radix number, bandwidth being the
\* least significant digit, then coding rate, spreading factor and power.
C22_MixedRadix ==
    (probe.fn = "updateTestParameters" /\ probe.index < TotalCombinations) =>
        LET i == probe.index
            nBw == Len(BwTable)
            nCr == Len(CrTable)
            nSf == Len(SfTable)
            nPower == Len(PowerTable)
        IN  /\ probe.out.test = i
            /\ probe.out.params.bandwidth = BwTable[(i % nBw) + 1]
            /\ probe.out.params.cr = CrTable[((i \div nBw) % nCr) + 1]
            /\ probe.out.params.sf = SfTable[((i \div (nBw * nCr)) % nSf) + 1]
            /\ probe.out.params.power
                   = PowerTable[((i \div (nBw * nCr * nSf)) % nPower) + 1]

\* C22, its case: an index whose four digits are 2, 1, 3 and 2.
C22_Witness ==
    /\ probe.fn = "updateTestParameters"
    /\ probe.index = 2 + 3 * (1 + 2 * (3 + 6 * 2))
    /\ probe.out.params = [bandwidth |-> 2500, cr |-> 8, sf |-> 10, power |-> 17]

\* C23: the tables hold three powers, so that there are 108 combinations;
\* index 0 decodes to the first entry of each table, index 107 to the last
\* entry of each, and index 108 wraps to the parameters of index 0.
C23_TablesOf108 ==
    probe.fn = "updateTestParameters" =>
        /\ Entries(PowerTable) = {5, 14, 22}
        /\ TotalCombinations = 108
        /\ probe.index = 0 =>
              probe.out.params = [bandwidth |-> 625, cr |-> 5, sf |-> 7, power |-> 5]
        /\ probe.index = 107 =>
              probe.out.params = [bandwidth |-> 2500, cr |-> 8, sf |-> 12, power |-> 22]
        /\ probe.index = 108 =>
              /\ probe.out.test = 0
              /\ probe.out.params = [bandwidth |-> 625, cr |-> 5, sf |-> 7, power |-> 5]

\* C23, amended: with the four powers of the table there are 144
\* combinations; index 0 decodes to the first entry of each table, index 143
\* to the last entry of each, and index 144 wraps to index 0 and its
\* parameters.
C23_TablesOf144 ==
    probe.fn = "updateTestParameters" =>
        /\ probe.index = 0 =>
              probe.out.params = [bandwidth |-> 625, cr |-> 5, sf |-> 7, power |-> 5]
        /\ probe.index = 143 =>
              probe.out.params = [bandwidth |-> 2500, cr |-> 8, sf |-> 12, power |-> 22]
        /\ probe.index = 144 =>
              /\ probe.out.test = 0
              /\ probe.out.params = [bandwidth |-> 625, cr |-> 5, sf |-> 7, power |-> 5]

\* C23, its case: index 144 has been decoded.
C23_Witness ==
    /\ probe.fn = "updateTestParameters"
    /\ probe.index = 144
    /\ probe.out.wasInvalidTest

\* C24: advance is an increment modulo TotalCombinations.  In a run of
\* advances from a start index the index is the start plus the number of
\* advances, modulo TotalCombinations; a wrap is reported at most once, by
\* the advance that leaves the last index; and after TotalCombinations
\* advances it has been reported once and the index is the start again.
C24_AdvanceIsModularIncrement ==
    probe.fn = "advance" =>
        /\ probe.index = (probe.start + probe.calls) % TotalCombinations
        /\ probe.wraps <= 1
        /\ probe.wraps = 1 => probe.wrappedFrom = TotalCombinations - 1
        /\ probe.wraps = (IF probe.start + probe.calls >= TotalCombinations THEN 1 ELSE 0)
        /\ probe.calls = TotalCombinations =>
              probe.wraps = 1 /\ probe.index = probe.start

\* C24, its case: a full run of advances from an index in the middle of the
\* sweep.
C24_Witness ==
    /\ probe.fn = "advance"
    /\ probe.start = 100
    /\ probe.calls = TotalCombinations
    /\ probe.wraps = 1

\* The outcome of the slot whose radio operation has just ended, as stored in
\* the result record when the slot has one.
StoredOutcome(n) == _results'[n][_messageIndex[n]].error

\* C25: the step that ends the radio operation of a measurement slot adds one
\* to exactly one of the three counters, the one of its outcome (none: ok,
\* crc or header: corrupt, timeout or unknown: lost), and whenever the handler
\* is between invocations the three counters add up to the number of
\* measurement slots completed (the handler invocations that were not
\* persistence passes).
C25_CountersPartitionSlots ==
    /\ [][\A n \in Nodes :
            IF IsRadioStep(n)
            THEN /\ \E c \in {"ok", "corrupt", "lost"} :
                        /\ _testsOk'[n] = _testsOk[n] + (IF c = "ok" THEN 1 ELSE 0)
                        /\ _testsCorrupt'[n] =
                                _testsCorrupt[n] + (IF c = "corrupt" THEN 1 ELSE 0)
                        /\ _testsLost'[n] = _testsLost[n] + (IF c = "lost" THEN 1 ELSE 0)
                 /\ _messageIndex[n] < MESSAGES_PER_TEST =>
                        /\ StoredOutcome(n) = kNone => _testsOk'[n] = _testsOk[n] + 1
                        /\ StoredOutcome(n) \in {kCrc, kHeader} =>
                                _testsCorrupt'[n] = _testsCorrupt[n] + 1
                        /\ StoredOutcome(n) \in {kTimeout, kUnknown} =>
                                _testsLost'[n] = _testsLost[n] + 1
            ELSE CountersOf(n)' = CountersOf(n)]_vars
    /\ [](\A n \in Nodes :
            hpc[n] = "wait" =>
                _testsOk[n] + _testsCorrupt[n] + _testsLost[n]
                    = invocations[n] - passes[n])

\* A device between invocations whose completed slots had all three kinds of
\* outcome.
C25_Witness ==
    \E n \in Nodes :
        /\ hpc[n] = "wait"
        /\ _testsOk[n] >= 1
        /\ _testsCorrupt[n] >= 1
        /\ _testsLost[n] >= 1

\* A step in which the device starts or ends a radio operation: the send or
\* receive of a measurement slot, or the send or receive of the handshake.
IsRadioOperation(n) ==
    \/ IsRadioStep(n)
    \/ hpc[n] # "T_radio" /\ hpc'[n] = "T_radio"
    \/ lpc[n] # "sync_radio" /\ lpc'[n] = "sync_radio"
    \/ lpc[n] = "sync_radio" /\ lpc'[n] # "sync_radio"

\* C26: kFinished is absorbing.  From a state where _protoState is kFinished
\* no step changes _protoState and no step starts or ends a radio operation
\* of the device, whether the step is a late tick, a step of the handler task
\* or a step of the polling loop.
C26_FinishedAbsorbing ==
    [][\A n \in Nodes :
        _protoState[n] = kFinished =>
            /\ _protoState'[n] = kFinished
            /\ ~IsRadioOperation(n)]_vars

\* A finished device that is still taking steps: the state is kFinished and a
\* tick has arrived since (the sweep's end), or the polling loop is inside the
\* abort path with the handler task already gone.
C26_Witness ==
    \E n \in Nodes :
        /\ _protoState[n] = kFinished
        /\ hpc[n] = "dead"
        /\ ~aborted[n]
        /\ notify[n] > 0
        /\ lpc[n] = "abort_state"

\* The sweep has stalled: the combination's slots are used up, the handler is
\* still timedLoop and no period is staged.  The staged sdLoop is applied
\* only together with a staged period, and only the slot that makes
\* _messageIndex equal to MESSAGES_PER_TEST stages one, so from here on the
\* index never advances.
Stalled(n) ==
    /\ hpc[n] = "wait"
    /\ _timerUserFn[n] = timedLoopFn
    /\ _messageIndex[n] >= MESSAGES_PER_TEST
    /\ _timerNextPeriod[n] = 0

\* C27: the overrun latch is not fatal.  The step that sets it changes
\* neither _protoState nor the timer nor the handler task, and while the
\* latch is set and the sweep is running (no abort under way) the timer is
\* armed, the handler task is alive and the sweep has not stalled, so that
\* the index can still reach its wrap.
C27_LatchNotFatal ==
    /\ [][\A n \in Nodes :
            (~_timerLatch[n] /\ _timerLatch'[n]) =>
                /\ _protoState'[n] = _protoState[n]
                /\ timerArmed'[n] = timerArmed[n]
                /\ _timerTask'[n] = _timerTask[n]]_vars
    /\ [](\A n \in Nodes :
            (_timerLatch[n] /\ _protoState[n] = kRunning /\ lpc[n] = "idle") =>
                /\ timerArmed[n]
                /\ _timerTask[n] = "alive"
                /\ ~Stalled(n))

\* C28: for fixed parameters the time on air does not decrease when the
\* payload grows, and for a fixed payload it is strictly larger at every
\* lower bandwidth and at every higher spreading factor of the tables.
C28_TimeOnAirMonotone ==
    probe.fn = "radioTransmitTime" =>
        /\ \A longer \in probe.packetLength..MaxPacketLength :
                RadioTransmitTime(probe.param, longer) >= probe.out
        /\ \A bw \in Entries(BwTable) :
                bw < probe.param.bandwidth =>
                    RadioTransmitTime([probe.param EXCEPT !.bandwidth = bw],
                                      probe.packetLength) > probe.out
        /\ \A sf \in Entries(SfTable) :
                sf > probe.param.sf =>
                    RadioTransmitTime([probe.param EXCEPT !.sf = sf],
                                      probe.packetLength) > probe.out

\* The time on air of the sweep's 10-byte message at sf 9, 125 kHz, cr 4/5
\* (35.25 symbols of 4096 us), which has longer payloads, a lower bandwidth
\* and higher spreading factors to compare with.
C28_Witness ==
    /\ probe.fn = "radioTransmitTime"
    /\ probe.param.sf = 9
    /\ probe.param.bandwidth = 1250
    /\ probe.param.cr = 5
    /\ probe.packetLength = MessageLength
    /\ probe.out = 144384

\* The (sf, bandwidth) of the tables whose symbol lasts more than 16 ms:
\* 16.384 ms at sf 10 / 62.5 kHz, sf 11 / 125 kHz and sf 12 / 250 kHz, and the
\* longer symbols of sf 11 and 12 at 62.5 kHz and of sf 12 at 125 kHz.  Every
\* other symbol lasts 8.192 ms or less.
LongSymbol(param) ==
    <<param.sf, param.bandwidth>> \in
        {<<10, 625>>, <<11, 625>>, <<12, 625>>, <<11, 1250>>, <<12, 1250>>,
         <<12, 2500>>}

\* C29: the low data rate optimisation follows from the parameters.  The
\* denominator of the time on air is 4 * (sf - 2) for exactly the (sf,
\* bandwidth) whose symbol lasts more than 16 ms and 4 * sf for the others,
\* and the modulation handed to the radio for the same parameters has the
\* optimisation on in exactly the same cases.
C29_LdroDerived ==
    probe.fn = "radioTransmitTime" =>
        /\ probe.denominator = IF LongSymbol(probe.param)
                               THEN 4 * (probe.param.sf - 2)
                               ELSE 4 * probe.param.sf
        /\ probe.modulation.ldro = LongSymbol(probe.param)
        /\ probe.modulation.sf = probe.param.sf

\* The shortest symbol with the optimisation on, sf 10 at 62.5 kHz, next to
\* which sf 10 at 125 kHz has it off.
C29_Witness ==
    /\ probe.fn = "radioTransmitTime"
    /\ probe.param.sf = 10
    /\ probe.param.bandwidth = 625
    /\ probe.modulation.ldro
    /\ probe.denominator = 32

\* The step is a handshake attempt of the device, which begins with logInit.
IsLogInit(n) == attempts'[n] = attempts[n] + 1

IsSlotStart(n) == hpc[n] = "wait" /\ hpc'[n] = "T_radio"

\* The step is the persistence pass of device n.
IsPass(n) == passes'[n] = passes[n] + 1

\* C31: the life of the result buffer.  A measurement slot that initialises
\* a slot of _results finds it clear, so that within a combination each slot
\* is written by one measurement slot only; the persistence pass finds every
\* slot written by a measurement slot of the current combination, at its own
\* position, prints each once in order and leaves every slot clear.
C31_BufferLifecycle ==
    [][\A n \in Nodes :
        /\ (IsSlotStart(n) /\ _messageIndex[n] < MESSAGES_PER_TEST) =>
                /\ ~_results[n][_messageIndex[n]].used
                /\ _results'[n][_messageIndex[n]].used
        /\ IsPass(n) =>
                /\ \A i \in 0..(MESSAGES_PER_TEST - 1) :
                        /\ _results[n][i].used
                        /\ _results[n][i].test = _currentTest[n]
                        /\ _results[n][i].msg = i
                        /\ lastPass'[n][i + 1].msg = i
                        /\ lastPass'[n][i + 1].error = _results[n][i].error
                        /\ _results'[n][i] = ZeroResult
                /\ Len(lastPass'[n]) = MESSAGES_PER_TEST]_vars

C33_IndexInsideBuffer ==
    [][\A n \in Nodes :
        IsSlotStart(n) => _messageIndex[n] < MESSAGES_PER_TEST]_vars

\* C34: radioRecv stays inside the caller's buffer.  For a packet of any
\* length the bytes stored into dest are at most the capacity passed in
\* *length, and on return *length is the number of bytes stored.
C34_RecvWithinCapacity ==
    probe.fn = "radioRecv" =>
        /\ probe.out.stored <= probe.capacity
        /\ probe.out.length <= probe.capacity
        /\ probe.out.length = probe.out.stored

\* C35: index and parameters are in step at every radio operation.  While a
\* device is inside the radio operation of a measurement slot, its
\* _parameters are the decode of its _currentTest.
C35_ParametersFollowIndex ==
    \A n \in Nodes :
        (_protoState[n] = kRunning /\ hpc[n] = "T_radio") =>
            _parameters[n] = Decode(_currentTest[n])

\* A radio operation of the last combination, reached by a persistence pass
\* from the combination before.
C35_Witness ==
    \E n \in Nodes :
        /\ _protoState[n] = kRunning
        /\ hpc[n] = "T_radio"
        /\ passes[n] = 1
        /\ _currentTest[n] = TotalCombinations - 1
        /\ _parameters[n] # InitialParameters

\* The step is the logClose() of the abort path of device n.
IsAbortClose(n) == lpc[n] = "idle" /\ lpc'[n] = "abort_stop"

\* C36: an abort loses no result.  When the abort path closes the log, no
\* slot of _results holds a result that has not been printed (a slot stays
\* written until the pass that prints it clears it).
C36_AbortWritesBuffered ==
    [][\A n \in Nodes :
        IsAbortClose(n) =>
            \A i \in 0..(MESSAGES_PER_TEST - 1) : ~_results[n][i].used]_vars

\* C37: records are labelled with their own combination.  Every record a
\* persistence pass prints is that of a measured slot, and its index and
\* parameters are those the device had when the slot began.
C37_RecordsLabelled ==
    [][\A n \in Nodes :
        IsPass(n) =>
            \A i \in 0..(MESSAGES_PER_TEST - 1) :
                /\ _results[n][i].used
                /\ lastPass'[n][i + 1].test = _results[n][i].test
                /\ lastPass'[n][i + 1].params = Decode(_results[n][i].test)]_vars

\* C38: the receive timeout is inside the slot.  Whenever a receiver's
\* timedLoop is in its radio operation, the timeout it gave radioRecv is
\* strictly smaller than the period the handler has read from the timer.
C38_TimeoutInsideSlot ==
    \A n \in Nodes :
        (_role[n] = kRx /\ hpc[n] = "T_radio")
        => RecvTimeout(_parameters[n]) < _currentPeriod[n]

\* C39: the sync byte carries the index.  For every index below the number
\* of combinations, the byte the sender writes is the index itself and the
\* index the receiver adopts from that byte is the sender's.
C39_SyncByteLossless ==
    (probe.fn = "sync" /\ probe.index < TotalCombinations)
    => (probe.byte = probe.index /\ probe.adopted = probe.index)

C39_Witness ==
    /\ probe.fn = "sync"
    /\ probe.index = TotalCombinations - 1
    /\ probe.adopted = TotalCombinations - 1
====
